---- MODULE Spec2Model ----
(***************************************************************************)
(* PyWeather: the query loop of main.py, the OpenWeatherMap client of      *)
(* weather_api.py (request, parse, daily aggregation of the 3-hour         *)
(* samples) and the temperature-trend chart of weather_display.py.         *)
(*                                                                         *)
(* Temperatures are Python floats (IEEE-754 binary64).  They are modelled  *)
(* exactly: a float is a sign, a 53-bit mantissa and an exponent, and      *)
(* every arithmetic step is the exact result rounded to nearest, ties to   *)
(* even.  Mantissas do not fit TLC's integers, so they are kept as         *)
(* little-endian sequences of limbs.                                       *)
(***************************************************************************)
EXTENDS Integers, Sequences, FiniteSets, TLC

(***************************************************************************)
(* Natural numbers of any size: little-endian limbs, no leading zero limb. *)
(* TLC's evaluation stack is short, so the limb operations are written     *)
(* without recursion: carries are found by lookahead.                      *)
(***************************************************************************)
LimbBits == 15
Base == 2^15

\* The value w, with v evaluated first: TLC evaluates operands on demand, and
\* a recursion that passes unevaluated operands down nests their evaluation.
Strict(v, w) == IF v = v THEN w ELSE w

Max(S) == CHOOSE m \in S : \A y \in S : y <= m

\* bits of n, 0 <= n < 2^30
IntBitLen(n) == IF n = 0 THEN 0 ELSE Max({k \in 1..30 : 2^(k - 1) <= n})

BNorm(a) ==
    LET nz == {i \in 1..Len(a) : a[i] # 0}
    IN  IF nz = {} THEN <<>> ELSE SubSeq(a, 1, Max(nz))

\* 0 <= n < 2^30
BFromInt(n) == BNorm(<<n % Base, n \div Base>>)

\* a < 2^30
BToInt(a) == IF a = <<>> THEN 0 ELSE IF Len(a) = 1 THEN a[1] ELSE a[1] + Base * a[2]

BLimb(a, i) == IF i <= Len(a) THEN a[i] ELSE 0

BBitLen(a) == IF a = <<>> THEN 0 ELSE LimbBits * (Len(a) - 1) + IntBitLen(a[Len(a)])

BBit(a, i) == (BLimb(a, (i \div LimbBits) + 1) \div 2^(i % LimbBits)) % 2

BCmp(a, b) ==
    LET n == IF Len(a) > Len(b) THEN Len(a) ELSE Len(b)
        df == {i \in 1..n : BLimb(a, i) # BLimb(b, i)}
    IN  IF df = {} THEN 0
        ELSE IF BLimb(a, Max(df)) < BLimb(b, Max(df)) THEN -1 ELSE 1

\* The number whose digits are s[1], s[2], ... with every 0 <= s[i] < 2 * Base:
\* a carry enters limb i iff some lower digit j overflows and every digit
\* between is at least Base - 1.
BCarry(s) ==
    LET s1 == Append(s, 0)
        cin(i) == \E j \in 1..(i - 1) :
                     /\ s1[j] >= Base
                     /\ \A m \in (j + 1)..(i - 1) : s1[m] >= Base - 1
    IN  BNorm([i \in 1..Len(s1) |-> (s1[i] + (IF cin(i) THEN 1 ELSE 0)) % Base])

BAdd(a, b) ==
    LET n == IF Len(a) > Len(b) THEN Len(a) ELSE Len(b)
    IN  BCarry([i \in 1..n |-> BLimb(a, i) + BLimb(b, i)])

\* a - b for a >= b: a borrow leaves limb i iff some lower limb j is short and
\* every limb between has nothing to spare.
BSub(a, b) ==
    LET df == [i \in 1..Len(a) |-> a[i] - BLimb(b, i)]
        bin(i) == \E j \in 1..(i - 1) :
                     /\ df[j] < 0
                     /\ \A m \in (j + 1)..(i - 1) : df[m] <= 0
    IN  BNorm([i \in 1..Len(a) |->
                 (df[i] - (IF bin(i) THEN 1 ELSE 0) + Base) % Base])

\* a * k for 0 <= k < Base
BMulSmall(a, k) ==
    LET p == [i \in 1..Len(a) |-> a[i] * k]
    IN  BCarry([i \in 1..(Len(a) + 1) |->
                  (IF i <= Len(a) THEN p[i] % Base ELSE 0)
                  + (IF i > 1 THEN p[i - 1] \div Base ELSE 0)])

\* a * 2^s
BShl(a, s) ==
    IF a = <<>> THEN <<>>
    ELSE [i \in 1..(s \div LimbBits) |-> 0] \o BMulSmall(a, 2^(s % LimbBits))

\* floor(a / 2^s)
BShr(a, s) ==
    LET q == s \div LimbBits
        p == 2^(s % LimbBits)
        hi == 2^(LimbBits - (s % LimbBits))
    IN  IF q >= Len(a) THEN <<>>
        ELSE BNorm([i \in 1..(Len(a) - q) |->
                     (a[i + q] \div p) + (BLimb(a, i + q + 1) % p) * hi])

\* a mod 2^s
BLow(a, s) ==
    LET q == s \div LimbBits
    IN  BNorm([i \in 1..(q + 1) |->
                 IF i <= q THEN BLimb(a, i) ELSE BLimb(a, i) % 2^(s % LimbBits)])

(***************************************************************************)
(* Long division, one quotient limb per step: [q, r] with n = q * d + r.   *)
(* The divisor is first shifted so that its top limb is at least Base / 2; *)
(* the quotient limb estimated from the top limbs is then at most 2 high.  *)
(***************************************************************************)
BDigit(r, d) ==
    LET t == Len(d)
        est == (BLimb(r, t + 1) * Base + BLimb(r, t)) \div d[t]
        qh == IF est > Base - 1 THEN Base - 1 ELSE est
    IN  IF BCmp(BMulSmall(d, qh), r) <= 0 THEN qh
        ELSE IF BCmp(BMulSmall(d, qh - 1), r) <= 0 THEN qh - 1
        ELSE qh - 2

\* [q, r] for the limbs i, i + 1, ... of n (the limbs above i + Len(d) - 2 are
\* the first remainder: they are less than d)
RECURSIVE BDivLimbs(_, _, _)
BDivLimbs(n, d, i) ==
    IF i + Len(d) - 1 > Len(n)
    THEN [q |-> <<>>, r |-> BNorm(SubSeq(n, i, Len(n)))]
    ELSE LET prev == BDivLimbs(n, d, i + 1)
             r1 == BNorm(<<n[i]>> \o prev.r)
             dg == BDigit(r1, d)
         IN  Strict(prev, [q |-> <<dg>> \o prev.q, r |-> BSub(r1, BMulSmall(d, dg))])

BDivMod(n, d) ==
    LET s == LimbBits - IntBitLen(d[Len(d)])
        res == BDivLimbs(BShl(n, s), BShl(d, s), 1)
    IN  [q |-> BNorm(res.q), r |-> BShr(res.r, s)]

(***************************************************************************)
(* binary64.  A float is [sign, m, e] of value (-1)^sign * m * 2^e with m  *)
(* of exactly MantDig bits, or m = <<>> for zero.  Temperatures and chart  *)
(* coordinates stay far from the subnormal and overflow ranges.            *)
(***************************************************************************)
MantDig == 53

FZero == [sign |-> 0, m |-> <<>>, e |-> 0]

\* The float nearest to (-1)^sign * (q + f) * 2^e, where 0 <= f < 1 and
\* sticky says f > 0: round to nearest, ties to even.  With sticky set, q has
\* more than MantDig bits.
FRound(sign, q, sticky, e) ==
    LET len == BBitLen(q)
        d == len - MantDig
    IN  IF q = <<>> THEN FZero
        ELSE IF d <= 0 THEN [sign |-> sign, m |-> BShl(q, -d), e |-> e + d]
        ELSE LET m0 == BShr(q, d)
                 low == BLow(q, d)
                 c == BCmp(low, BShl(<<1>>, d - 1))
                 up == \/ c > 0
                       \/ c = 0 /\ sticky
                       \/ c = 0 /\ ~sticky /\ BBit(m0, 0) = 1
                 m1 == IF up THEN BAdd(m0, <<1>>) ELSE m0
             IN  IF BBitLen(m1) > MantDig
                 THEN [sign |-> sign, m |-> BShr(m1, 1), e |-> e + d + 1]
                 ELSE [sign |-> sign, m |-> m1, e |-> e + d]

\* The float nearest to (-1)^sign * (n / d) * 2^e
FDivRound(sign, n, d, e) ==
    LET need == BBitLen(d) + MantDig + 2 - BBitLen(n)
        s == IF need > 0 THEN need ELSE 0
        qr == BDivMod(BShl(n, s), d)
    IN  IF n = <<>> THEN FZero
        ELSE FRound(sign, qr.q, qr.r # <<>>, e - s)

Abs(k) == IF k < 0 THEN -k ELSE k

\* int -> float (exact for the small integers used here)
FFromInt(k) == FRound(IF k < 0 THEN 1 ELSE 0, BFromInt(Abs(k)), FALSE, 0)

\* The float a decimal literal k / 10 denotes (json parses to the nearest float).
FFromTenths(k) == FDivRound(IF k < 0 THEN 1 ELSE 0, BFromInt(Abs(k)), BFromInt(10), 0)

FNeg(a) == IF a.m = <<>> THEN a ELSE [a EXCEPT !.sign = 1 - a.sign]

\* -1, 0, 1 as |a| <, =, > |b|
FCmpAbs(a, b) ==
    IF a.m = <<>> THEN (IF b.m = <<>> THEN 0 ELSE -1)
    ELSE IF b.m = <<>> THEN 1
    ELSE IF a.e < b.e THEN -1
    ELSE IF a.e > b.e THEN 1
    ELSE BCmp(a.m, b.m)

FCmp(a, b) ==
    IF a.sign # b.sign THEN (IF a.sign = 1 THEN -1 ELSE 1)
    ELSE IF a.sign = 0 THEN FCmpAbs(a, b) ELSE FCmpAbs(b, a)

FLe(a, b) == FCmp(a, b) <= 0
FLt(a, b) == FCmp(a, b) < 0

\* a + b
FAdd(a, b) ==
    IF a.m = <<>> THEN b
    ELSE IF b.m = <<>> THEN a
    ELSE LET e0 == IF a.e < b.e THEN a.e ELSE b.e
             x == BShl(a.m, a.e - e0)
             y == BShl(b.m, b.e - e0)
             c == BCmp(x, y)
         IN  IF a.sign = b.sign THEN FRound(a.sign, BAdd(x, y), FALSE, e0)
             ELSE IF c = 0 THEN FZero
             ELSE IF c > 0 THEN FRound(a.sign, BSub(x, y), FALSE, e0)
             ELSE FRound(b.sign, BSub(y, x), FALSE, e0)

FSub(a, b) == FAdd(a, FNeg(b))

\* a / b, b # 0
FDiv(a, b) == FDivRound((a.sign + b.sign) % 2, a.m, b.m, a.e - b.e)

\* a * k for an int 0 <= k < 128
FMulInt(a, k) == FRound(a.sign, BMulSmall(a.m, k), FALSE, a.e)

\* int(a): truncation toward zero (the result fits an integer here)
FTrunc(a) ==
    LET mag == IF a.m = <<>> THEN 0
               ELSE IF a.e >= 0 THEN BToInt(BShl(a.m, a.e))
               ELSE BToInt(BShr(a.m, -a.e))
    IN  IF a.sign = 1 THEN -mag ELSE mag

\* round(a): the nearest integer, ties to the even one
FRoundInt(a) ==
    LET d == -a.e
        q == BToInt(BShr(a.m, d))
        c == BCmp(BLow(a.m, d), BShl(<<1>>, d - 1))
        mag == IF a.m = <<>> THEN 0
               ELSE IF a.e >= 0 THEN BToInt(BShl(a.m, a.e))
               ELSE IF c > 0 \/ (c = 0 /\ q % 2 = 1) THEN q + 1
               ELSE q
    IN  IF a.sign = 1 THEN -mag ELSE mag

(***************************************************************************)
(* Python str: a sequence of code points.                                  *)
(***************************************************************************)
Lower(c) == IF c >= 65 /\ c <= 90 THEN c + 32 ELSE c
Upper(c) == IF c >= 97 /\ c <= 122 THEN c - 32 ELSE c

\* s.lower()
StrLower(s) == [i \in 1..Len(s) |-> Lower(s[i])]

\* s.capitalize(): the first character upper-cased, the rest lower-cased
Capitalize(s) == [i \in 1..Len(s) |-> IF i = 1 THEN Upper(s[i]) ELSE Lower(s[i])]

\* s.split(sep) for a one-character sep
Split(s, sep) ==
    LET cut == {i \in 1..Len(s) : s[i] = sep}
        n == Cardinality(cut) + 1
        pos(k) == IF k = 0 THEN 0
                  ELSE IF k = n THEN Len(s) + 1
                  ELSE CHOOSE i \in cut : Cardinality({j \in cut : j <= i}) = k
    IN  [k \in 1..n |-> SubSeq(s, pos(k - 1) + 1, pos(k) - 1)]

\* a < b, the order list.sort uses on str keys
StrLt(a, b) ==
    LET n == IF Len(a) < Len(b) THEN Len(a) ELSE Len(b)
        df == {i \in 1..n : a[i] # b[i]}
    IN  IF df = {} THEN Len(a) < Len(b)
        ELSE a[CHOOSE i \in df : \A j \in df : i <= j] < b[CHOOSE i \in df : \A j \in df : i <= j]

StrExit == <<101, 120, 105, 116>>                 \* "exit"

(***************************************************************************)
(* A parsed JSON value, as response.json() returns it: a tagged value.     *)
(* Numbers are floats; a dict is a record of its keys.                     *)
(***************************************************************************)
JNull == [t |-> "null", v |-> 0]
JNum(x) == [t |-> "num", v |-> x]
JStr(s) == [t |-> "str", v |-> s]
JList(s) == [t |-> "list", v |-> s]
JDict(r) == [t |-> "dict", v |-> r]

\* bool(v)
Truthy(v) ==
    CASE v.t \in {"None", "null"} -> FALSE
      [] v.t = "num" -> v.v.m # <<>>
      [] v.t = "dict" -> DOMAIN v.v # {}
      [] OTHER -> v.v # <<>>

\* The outcome of evaluating an expression: a value, or the exception raised.
Ok(v) == [exc |-> "", val |-> v]
Raise(e) == [exc |-> e, val |-> JNull]

\* r[key] for a str key
Key(r, key) ==
    IF r.exc # "" THEN r
    ELSE IF r.val.t = "dict"
         THEN (IF key \in DOMAIN r.val.v THEN Ok(r.val.v[key]) ELSE Raise("KeyError"))
    ELSE Raise("TypeError")

\* r[0]
Index0(r) ==
    IF r.exc # "" THEN r
    ELSE IF r.val.t = "list"
         THEN (IF r.val.v # <<>> THEN Ok(r.val.v[1]) ELSE Raise("IndexError"))
    ELSE IF r.val.t = "str"
         THEN (IF r.val.v # <<>> THEN Ok(JStr(<<r.val.v[1]>>)) ELSE Raise("IndexError"))
    ELSE IF r.val.t = "dict"
         THEN (IF 0 \in DOMAIN r.val.v THEN Ok(r.val.v[0]) ELSE Raise("KeyError"))
    ELSE Raise("TypeError")

\* r.capitalize()
CapitalizeOf(r) ==
    IF r.exc # "" THEN r
    ELSE IF r.val.t = "str" THEN Ok(JStr(Capitalize(r.val.v)))
    ELSE Raise("AttributeError")

\* The first exception among the outcomes rs, "" when there is none
FirstExc(rs) ==
    LET bad == {i \in 1..Len(rs) : rs[i].exc # ""}
    IN  IF bad = {} THEN "" ELSE rs[CHOOSE i \in bad : \A j \in bad : i <= j].exc

(***************************************************************************)
(* weather_api.py                                                          *)
(***************************************************************************)
None == [t |-> "None"]

\* What client.get(...) ends with: a transport failure, or a response with
\* its status and body (a parsed value, or text that is no JSON).
RequestError == [kind |-> "RequestError"]
Response(status, body) == [kind |-> "response", status |-> status, body |-> body]
NotJson == [t |-> "notjson", v |-> 0]

\* _make_request: the parsed body, or None with the error printed
MakeRequest(resp) ==
    IF resp.kind = "RequestError" THEN [data |-> None, log |-> <<"Network error">>]
    ELSE IF resp.status < 200 \/ resp.status > 299
         THEN [data |-> None, log |-> <<"HTTP error">>]
    ELSE IF resp.body.t = "notjson"
         THEN [data |-> None, log |-> <<"An unexpected error occurred">>]
    ELSE [data |-> resp.body, log |-> <<>>]

\* get_current_weather after its request: [exc, val, log].  Only KeyError is
\* caught; any other exception leaves the method.
GetCurrentWeather(resp) ==
    LET req == MakeRequest(resp)
        d == Ok(req.data)
        w == Index0(Key(d, "weather"))
        fields == << Key(d, "name"),
                     Key(Key(d, "sys"), "country"),
                     Key(Key(d, "main"), "temp"),
                     Key(Key(d, "main"), "feels_like"),
                     Key(Key(d, "main"), "humidity"),
                     CapitalizeOf(Key(w, "description")),
                     Key(w, "icon"),
                     Key(Key(d, "wind"), "speed"),
                     Key(Key(d, "main"), "pressure") >>
        exc == FirstExc(fields)
    IN  IF ~Truthy(req.data) THEN [exc |-> "", val |-> None, log |-> req.log]
        ELSE IF exc = "KeyError"
             THEN [exc |-> "", val |-> None,
                   log |-> <<"Error parsing current weather data">>]
        ELSE IF exc # "" THEN [exc |-> exc, val |-> None, log |-> <<>>]
        ELSE [exc |-> "", log |-> <<>>,
              val |-> [t |-> "WeatherData",
                       city |-> fields[1].val,
                       country |-> fields[2].val,
                       temperature |-> fields[3].val,
                       feels_like |-> fields[4].val,
                       humidity |-> fields[5].val,
                       description |-> fields[6].val,
                       icon |-> fields[7].val,
                       wind_speed |-> fields[8].val,
                       pressure |-> fields[9].val]]

\* The k-th smallest element of a set of integers
Nth(S, k) == CHOOSE i \in S : Cardinality({j \in S : j <= i}) = k

\* The elements of s at the indexes in S, in order
Select(s, S) == [m \in 1..Cardinality(S) |-> s[Nth(S, m)]]

\* item['dt_txt'].split(' ')[0]
ItemDate(item) ==
    LET r == Key(Ok(item), "dt_txt")
    IN  IF r.exc # "" THEN r
        ELSE IF r.val.t # "str" THEN Raise("AttributeError")
        ELSE Ok(JStr(Split(r.val.v, 32)[1]))

\* forecast_by_day: the dates in the order the dict first saw them, each
\* with its readings in payload order
ForecastByDay(items) ==
    LET date(i) == ItemDate(items[i]).val.v
        first == {i \in 1..Len(items) : \A j \in 1..(i - 1) : date(j) # date(i)}
    IN  [k \in 1..Cardinality(first) |->
           [date |-> date(Nth(first, k)),
            readings |-> Select(items, {i \in 1..Len(items) : date(i) = date(Nth(first, k))})]]

\* A mode that resolves ties by the value seen last
LastMostCommon(vals) ==
    LET count(i) == Cardinality({j \in 1..Len(vals) : vals[j] = vals[i]})
        best == {i \in 1..Len(vals) : \A j \in 1..Len(vals) : count(j) <= count(i)}
    IN  vals[Max(best)]

\* Counter(vals).most_common(1)[0][0]: the counts are kept in first-seen order
\* and the first entry with the largest count is returned
MostCommon(vals) ==
    LET count(i) == Cardinality({j \in 1..Len(vals) : vals[j] = vals[i]})
        best == {i \in 1..Len(vals) : \A j \in 1..Len(vals) : count(j) <= count(i)}
    IN  vals[Nth(best, 1)]

\* min(temps), max(temps)
MinOf(temps) == CHOOSE t \in {temps[i] : i \in 1..Len(temps)} :
                    \A i \in 1..Len(temps) : FLe(t, temps[i])
MaxOf(temps) == CHOOSE t \in {temps[i] : i \in 1..Len(temps)} :
                    \A i \in 1..Len(temps) : FLe(temps[i], t)

\* sum(temps): 0 + temps[0] + temps[1] + ..., each addition rounded (the
\* left fold of CPython before 3.12; later versions compensate the sum,
\* and for three samples of 0.1 both give the mean 0.10000000000000002)
RECURSIVE SumOf(_, _)
SumOf(temps, n) == IF n = 0 THEN FZero ELSE FAdd(SumOf(temps, n - 1), temps[n])

\* sum(temps) / len(temps)
MeanOf(temps) == FDiv(SumOf(temps, Len(temps)), FFromInt(Len(temps)))

\* What the second loop raises for one day, "" when it builds the forecast
DayExc(readings) ==
    LET n == Len(readings)
        temp(i) == Key(Key(Ok(readings[i]), "main"), "temp")
        w(i) == Index0(Key(Ok(readings[i]), "weather"))
        lookups == [i \in 1..(3 * n) |->
                      IF i <= n THEN temp(i)
                      ELSE IF i <= 2 * n THEN Key(w(i - n), "description")
                      ELSE Key(w(i - 2 * n), "icon")]
        descs == [i \in 1..n |-> Key(w(i), "description").val]
        icons == [i \in 1..n |-> Key(w(i), "icon").val]
    IN  IF FirstExc(lookups) # "" THEN FirstExc(lookups)
        ELSE IF \E i \in 1..n : descs[i].t \in {"list", "dict"} THEN "TypeError"
        ELSE IF MostCommon(descs).t # "str" THEN "AttributeError"
        ELSE IF \E i \in 1..n : icons[i].t \in {"list", "dict"} THEN "TypeError"
        ELSE IF \E i \in 1..n : temp(i).val.t # "num" THEN "TypeError"
        ELSE ""

\* The DailyForecast of one day
Daily(date_str, readings) ==
    LET temps == [i \in 1..Len(readings) |-> readings[i].v.main.v.temp.v]
        descriptions == [i \in 1..Len(readings) |-> readings[i].v.weather.v[1].v.description]
        icons == [i \in 1..Len(readings) |-> readings[i].v.weather.v[1].v.icon]
    IN  [date |-> date_str,
         min_temp |-> MinOf(temps),
         max_temp |-> MaxOf(temps),
         avg_temp |-> MeanOf(temps),
         description |-> Capitalize(MostCommon(descriptions).v),
         icon |-> MostCommon(icons)]

\* The days left in the order the payload first named them
Unsorted(dfs) == dfs

\* daily_forecasts.sort(key=lambda x: x.date): a stable sort
SortByDate(dfs) ==
    LET rank(k) == 1 + Cardinality({j \in 1..Len(dfs) : StrLt(dfs[j].date, dfs[k].date)})
                     + Cardinality({j \in 1..(k - 1) : dfs[j].date = dfs[k].date})
    IN  [r \in 1..Len(dfs) |-> dfs[CHOOSE k \in 1..Len(dfs) : rank(k) = r]]

\* The items the first loop iterates over: a list's elements; an empty dict
\* or str has none; anything else raises.
ListItems(r) ==
    IF r.exc # "" THEN r
    ELSE IF r.val.t = "list" THEN r
    ELSE IF r.val.t \in {"dict", "str"} /\ ~Truthy(r.val) THEN Ok(JList(<<>>))
    ELSE Raise("TypeError")

\* get_five_day_forecast after its request: [val, log].  Every exception is
\* caught inside the method.
GetFiveDayForecast(resp) ==
    LET req == MakeRequest(resp)
        d == Ok(req.data)
        lst == ListItems(Key(d, "list"))
        items == lst.val.v
        dates == [i \in 1..Len(items) |-> ItemDate(items[i])]
        by_day == ForecastByDay(items)
        days == [k \in 1..Len(by_day) |->
                   [exc |-> DayExc(by_day[k].readings), val |-> JNull]]
        city == <<Key(Key(d, "city"), "name"), Key(Key(d, "city"), "country")>>
        exc == IF lst.exc # "" THEN lst.exc
               ELSE IF FirstExc(dates) # "" THEN FirstExc(dates)
               ELSE IF FirstExc(days) # "" THEN FirstExc(days)
               ELSE FirstExc(city)
    IN  IF ~Truthy(req.data) THEN [val |-> None, log |-> req.log]
        ELSE IF exc = "KeyError"
             THEN [val |-> None, log |-> <<"Error parsing forecast data">>]
        ELSE IF exc # ""
             THEN [val |-> None,
                   log |-> <<"An unexpected error occurred during forecast parsing">>]
        ELSE [log |-> <<>>,
              val |-> [t |-> "ForecastData",
                       city |-> city[1].val,
                       country |-> city[2].val,
                       daily_forecasts |->
                           SortByDate([k \in 1..Len(by_day) |->
                               Daily(by_day[k].date, by_day[k].readings)])]]

(***************************************************************************)
(* weather_display.py                                                      *)
(***************************************************************************)
chart_height == 8
chart_width == 50

\* display_current_weather: the exception raised, "" when the table prints.
\* The format spec .1f needs a number.
DisplayCurrentWeather(wd) ==
    IF wd.temperature.t # "num" THEN "ValueError"
    ELSE IF wd.icon.t \in {"list", "dict"} THEN "TypeError"
    ELSE IF wd.feels_like.t # "num" \/ wd.wind_speed.t # "num" THEN "ValueError"
    ELSE ""

\* max(0, min(k, hi))
Clamp(k, hi) == IF k > hi THEN hi ELSE IF k < 0 THEN 0 ELSE k

\* The range taken as it comes
Span(min_temp_all, max_temp_all) == FSub(max_temp_all, min_temp_all)

\* temp_range, with 1 in place of 0
TempRange(min_temp_all, max_temp_all) ==
    IF FSub(max_temp_all, min_temp_all) = FZero THEN FFromInt(1)
    ELSE FSub(max_temp_all, min_temp_all)

\* The scaled temperature rounded to the nearest row
ScaledTempRounded(avg_temp, min_temp_all, temp_range) ==
    Clamp(FRoundInt(FMulInt(FDiv(FSub(avg_temp, min_temp_all), temp_range),
                            chart_height - 1)),
          chart_height - 1)

\* scaled_temp of a day
ScaledTemp(avg_temp, min_temp_all, temp_range) ==
    Clamp(FTrunc(FMulInt(FDiv(FSub(avg_temp, min_temp_all), temp_range),
                         chart_height - 1)),
          chart_height - 1)

\* The column rounded to the nearest one
ColumnPosRounded(i, n) ==
    IF n > 1
    THEN Clamp(FRoundInt(FMulInt(FDiv(FFromInt(i), FFromInt(n - 1)), chart_width - 1)),
               chart_width - 1)
    ELSE 0

\* column_pos of day i (from 0) of n
ColumnPos(i, n) ==
    IF n > 1
    THEN Clamp(FTrunc(FMulInt(FDiv(FFromInt(i), FFromInt(n - 1)), chart_width - 1)),
               chart_width - 1)
    ELSE 0

\* The scale drawn without turning it over
Unflipped(scaled_temp) == scaled_temp

\* The line of chart_lines (from 0, top first) a scaled temperature is drawn on
ChartLine(scaled_temp) == chart_height - 1 - scaled_temp

\* display_forecast: what it raises, "" when it prints everything, and its
\* locals.  marks[i] holds the scaled_temp and column_pos of day i;
\* chart_lines[k] is line k - 1 of the chart (the k-th printed), given by the
\* set of columns that hold the marker.  The marker of a day is written to
\* chart_lines[ChartLine(scaled_temp)][column_pos]; an index outside the list
\* or the line raises.
DisplayForecast(fd) ==
    LET dfs == fd.daily_forecasts
        n == Len(dfs)
        min_temp_all == MinOf([i \in 1..n |-> dfs[i].min_temp])
        max_temp_all == MaxOf([i \in 1..n |-> dfs[i].max_temp])
        temp_range == TempRange(min_temp_all, max_temp_all)
        marks == [i \in 1..n |->
                    [scaled_temp |-> ScaledTemp(dfs[i].avg_temp, min_temp_all, temp_range),
                     column_pos |-> ColumnPos(i - 1, n)]]
        lines == [i \in 1..n |-> ChartLine(marks[i].scaled_temp)]
    IN  IF n = 0 THEN [exc |-> "ValueError"]
        ELSE IF \E i \in 1..n : Len(Split(dfs[i].date, 45)) < 3
             THEN [exc |-> "IndexError"]
        ELSE IF temp_range = FZero THEN [exc |-> "ZeroDivisionError"]
        ELSE IF Strict(marks, \E i \in 1..n : \/ lines[i] < -chart_height
                                               \/ lines[i] >= chart_height
                                               \/ marks[i].column_pos < -chart_width
                                               \/ marks[i].column_pos >= chart_width)
             THEN [exc |-> "IndexError"]
        ELSE [exc |-> "",
              min_temp_all |-> min_temp_all,
              max_temp_all |-> max_temp_all,
              temp_range |-> temp_range,
              marks |-> marks,
              chart_lines |-> [k \in 1..chart_height |->
                   {marks[i].column_pos % chart_width : i \in {j \in 1..n :
                        lines[j] % chart_height = k - 1}}],
              labels |-> [i \in 1..n |-> Split(dfs[i].date, 45)[3]]]

(***************************************************************************)
(* main.py: the interactive loop.  One action per stretch of main() between *)
(* two suspensions: the start-up, the prompt, and the code that runs when   *)
(* each of the two awaited requests completes.                              *)
(***************************************************************************)
VARIABLES
    pc,                    \* where main() is
    api_key,               \* os.getenv("OPENWEATHER_API_KEY")
    city,                  \* the answer to the last prompt
    requests,              \* endpoints requested since the last prompt
    out,                   \* what was printed since the last prompt
    current_weather_data,  \* main's local, None until assigned in this pass
    forecast_data,         \* main's local, None until assigned in this pass
    data,                  \* the JSON the forecast request returned
    chart                  \* what display_forecast drew in this pass

vars == <<pc, api_key, city, requests, out, current_weather_data,
          forecast_data, data, chart>>

StrLondon == <<76, 111, 110, 100, 111, 110>>
StrGB == <<71, 66>>
StrKey == <<107, 101, 121>>

\* The environment either lacks the variable, or holds it empty, or set.
ApiKeys == {None, JStr(<<>>), JStr(StrKey)}

Init ==
    /\ pc = "start"
    /\ api_key \in ApiKeys
    /\ city = <<>>
    /\ requests = <<>>
    /\ out = <<>>
    /\ current_weather_data = None
    /\ forecast_data = None
    /\ data = None
    /\ chart = None

\* main() up to the loop
Start ==
    /\ pc = "start"
    /\ pc' = IF Truthy(api_key) THEN "prompt" ELSE "exit1"
    /\ out' = IF Truthy(api_key) THEN <<"Welcome">>
              ELSE <<"Welcome", "Configuration Error">>
    /\ UNCHANGED <<api_key, city, requests, current_weather_data,
                   forecast_data, data, chart>>

\* The prompt is answered; main runs to the first await or to the break.
AskCity(Cities) ==
    /\ pc = "prompt"
    /\ \E c \in Cities :
        /\ city' = c
        /\ pc' = IF StrLower(c) = StrExit THEN "exit0" ELSE "await_current"
        /\ out' = IF StrLower(c) = StrExit THEN <<"Exiting">> ELSE <<"Fetching">>
        /\ requests' = IF StrLower(c) = StrExit THEN <<>> ELSE <<"weather">>
    /\ current_weather_data' = None
    /\ forecast_data' = None
    /\ data' = None
    /\ chart' = None
    /\ UNCHANGED api_key

\* The current-weather request completes: the rest of _make_request and
\* get_current_weather, the display, and the start of the forecast request.
CurrentResponse(Responses) ==
    /\ pc = "await_current"
    /\ \E k \in DOMAIN Responses :
       \E r \in {GetCurrentWeather(Responses[k])} :
       \E raised \in {IF r.exc # "" THEN r.exc
                      ELSE IF r.val # None THEN DisplayCurrentWeather(r.val)
                      ELSE ""} :
            /\ current_weather_data' = IF r.exc = "" THEN r.val ELSE None
            /\ pc' = IF raised # "" THEN "crashed" ELSE "await_forecast"
            /\ out' = out \o r.log \o
                       (IF raised # "" THEN <<"Traceback">>
                        ELSE IF r.val # None THEN <<"Current Conditions">>
                        ELSE <<"Could not retrieve current weather">>)
            /\ requests' = IF raised # "" THEN requests
                           ELSE Append(requests, "forecast")
    /\ UNCHANGED <<api_key, city, forecast_data, data, chart>>

\* The forecast request completes: the rest of _make_request and
\* get_five_day_forecast, the display, and the separator.
ForecastResponse(Responses) ==
    /\ pc = "await_forecast"
    /\ \E k \in DOMAIN Responses :
       \E r \in {GetFiveDayForecast(Responses[k])} :
       \E shown \in {IF r.val # None THEN DisplayForecast(r.val) ELSE [exc |-> ""]} :
            /\ data' = MakeRequest(Responses[k]).data
            /\ forecast_data' = r.val
            /\ chart' = IF r.val # None /\ shown.exc = "" THEN shown ELSE None
            /\ pc' = IF shown.exc # "" THEN "crashed" ELSE "prompt"
            /\ out' = out \o r.log \o
                       (IF shown.exc # "" THEN <<"Forecast Overview", "Traceback">>
                        ELSE IF r.val # None THEN <<"Forecast Overview", "separator">>
                        ELSE <<"Could not retrieve forecast", "separator">>)
    /\ UNCHANGED <<api_key, city, requests, current_weather_data>>

(***************************************************************************)
(* What the weather service can answer.                                    *)
(***************************************************************************)
StrRain == <<114, 97, 105, 110>>        \* "rain"
StrFog == <<102, 111, 103>>         \* "fog"
StrClearSky == <<99, 108, 101, 97, 114, 32, 115, 107, 121>>    \* "clear sky"
Icon01d == <<48, 49, 100>>
Icon10d == <<49, 48, 100>>
StrFewClouds == <<102, 101, 119, 32, 99, 108, 111, 117, 100, 115>>    \* "few clouds"
Icon01n == <<48, 49, 110>>
Icon02d == <<48, 50, 100>>
Icon50d == <<53, 48, 100>>

\* The k-th day of a run of days across a month's end: 2024-01-30, 2024-01-31,
\* 2024-02-01, ...
DateStr(k) ==
    IF k <= 2 THEN <<50, 48, 50, 52, 45, 48, 49, 45, 51, 47 + k>>
    ELSE <<50, 48, 50, 52, 45, 48, 50, 45, 48 + ((k - 2) \div 10), 48 + ((k - 2) % 10)>>

\* " 00:00:00", " 03:00:00", ... : the j-th three-hour slot of a day
TimeStr(j) ==
    <<32, 48 + ((3 * j) \div 10), 48 + ((3 * j) % 10), 58, 48, 48, 58, 48, 48>>

\* One entry of the forecast's 'list', with the keys the client reads
Sample(dt_txt, temp, description, icon) ==
    JDict([dt_txt |-> JStr(dt_txt),
           main |-> JDict([temp |-> temp]),
           weather |-> JList(<<JDict([description |-> JStr(description),
                                      icon |-> JStr(icon)])>>)])

CityJson == JDict([name |-> JStr(StrLondon), country |-> JStr(StrGB)])

ForecastJson(items) == JDict([list |-> JList(items), city |-> CityJson])

CurrentJson(temp, weather) ==
    JDict([name |-> JStr(StrLondon),
           sys |-> JDict([country |-> JStr(StrGB)]),
           main |-> JDict([temp |-> temp,
                           feels_like |-> JNum(FFromTenths(118)),
                           humidity |-> JNum(FFromInt(80)),
                           pressure |-> JNum(FFromInt(1012))]),
           weather |-> weather,
           wind |-> JDict([speed |-> JNum(FFromTenths(41))])])

WeatherJson(description, icon) ==
    JList(<<JDict([description |-> JStr(description), icon |-> JStr(icon)])>>)

\* A forecast whose readings fall on consecutive days in time order: reading
\* i starts a new day exactly when i is in breaks.
ChartItems(temps, breaks) ==
    [i \in 1..Len(temps) |->
        Sample(DateStr(1 + Cardinality({b \in breaks : b <= i})) \o
                 TimeStr(i - Max({1} \cup {b \in breaks : b <= i})),
               JNum(temps[i]), StrClearSky, Icon01d)]

\* A forecast of readings given by day and condition, in any order
AggItems(kinds) ==
    [i \in 1..Len(kinds) |->
        Sample(DateStr(kinds[i][1]) \o TimeStr(i - 1),
               JNum(FFromTenths(125)), kinds[i][2][1], kinds[i][2][2])]

(***************************************************************************)
(* Bounds                                                                  *)
(***************************************************************************)
MaxChartSamples == 4     \* readings in a forecast of ChartForecasts
MaxAggSamples == 3       \* readings in a forecast of AggForecasts

\* Answers to the prompt: "London", "Tokyo", "exit", "Exit"
Cities == {StrLondon, <<84, 111, 107, 121, 111>>, StrExit, <<69, 120, 105, 116>>}

\* Answers to the prompt where the forecasts vary instead
OneCity == {StrLondon, StrExit}

\* Temperatures of the chart forecasts: 0.1, 10.0, 30.0
ChartTemps == {FFromTenths(1), FFromInt(10), FFromInt(30)}

\* Conditions as the service pairs them: a description with its day or night
\* icon
Conditions == {<<StrClearSky, Icon01d>>, <<StrClearSky, Icon01n>>,
               <<StrFewClouds, Icon02d>>}

AggKinds == {1, 2} \X Conditions

\* The answer that carries a forecast
ForecastOf(items) == <<Response(200, ForecastJson(items))>>

\* Answers to the current-weather request: failures of transport, of status
\* and of decoding, and bodies of each shape the client tells apart.
CurrentResponses ==
    <<RequestError,
      Response(404, NotJson),
      Response(500, NotJson),
      Response(200, NotJson),
      Response(200, CurrentJson(JNum(FFromTenths(125)), WeatherJson(StrRain, Icon10d))),
      Response(200, CurrentJson(JNum(FFromInt(30)), WeatherJson(StrClearSky, Icon01d))),
      Response(200, JNull),
      Response(200, JDict([cod |-> JNum(FFromInt(200))])),
      Response(200, CurrentJson(JNum(FFromTenths(125)), JList(<<>>))),
      Response(200, CurrentJson(JStr(StrRain), WeatherJson(StrRain, Icon10d))),
      Response(200, JList(<<JNum(FFromInt(1))>>))>>

\* The answer to the current-weather request where the forecasts vary
UsualCurrentResponses == <<CurrentResponses[5]>>

\* Answers to the forecast request, likewise.
ForecastResponses ==
    <<RequestError,
      Response(404, NotJson),
      Response(200, NotJson),
      Response(200, JList(<<>>)),
      Response(200, JDict([cod |-> JNum(FFromInt(200))])),
      Response(200, JDict([list |-> JList(<<>>)])),
      Response(200, ForecastJson(<<>>)),
      Response(200, ForecastJson(<<Sample(<<50, 48, 50, 52>>, JNum(FFromInt(10)),
                                          StrRain, Icon10d)>>)),
      Response(200, ForecastJson(<<Sample(DateStr(1) \o TimeStr(0), JStr(StrRain),
                                          StrRain, Icon10d)>>)),
      Response(200, ForecastJson(ChartItems(<<FFromInt(10), FFromInt(30)>>, {2}))),
      Response(200, ForecastJson(AggItems(<<<<2, <<StrRain, Icon10d>>>>,
                                            <<1, <<StrFog, Icon50d>>>>>>)))>>

(***************************************************************************)
(* Specifications                                                          *)
(***************************************************************************)
\* The shell against every kind of answer
Next ==
    \/ Start
    \/ AskCity(Cities)
    \/ CurrentResponse(CurrentResponses)
    \/ ForecastResponse(ForecastResponses)

Spec == Init /\ [][Next]_vars

\* The shell against forecasts of time-ordered readings of varied temperature
NextChart ==
    \/ Start
    \/ AskCity(OneCity)
    \/ CurrentResponse(UsualCurrentResponses)
    \/ \E n \in 1..MaxChartSamples :
       \E temps \in [1..n -> ChartTemps], breaks \in SUBSET (2..n) :
          ForecastResponse(ForecastOf(ChartItems(temps, breaks)))

SpecChart == Init /\ [][NextChart]_vars

\* The shell against forecasts of readings of varied day, description and
\* icon, in any order
NextAgg ==
    \/ Start
    \/ AskCity(OneCity)
    \/ CurrentResponse(UsualCurrentResponses)
    \/ \E n \in 1..MaxAggSamples :
       \E kinds \in [1..n -> AggKinds] :
          ForecastResponse(ForecastOf(AggItems(kinds)))

SpecAgg == Init /\ [][NextAgg]_vars

(***************************************************************************)
(* Properties.  They read the last pass of the loop from the state: the    *)
(* payload the forecast request returned (data), the ForecastData built    *)
(* from it (forecast_data) and what display_forecast drew (chart).         *)
(***************************************************************************)
\* The days of the forecast in hand
Days == IF forecast_data = None THEN <<>> ELSE forecast_data.daily_forecasts

\* The entries of the payload's 'list'
Items == IF data.t = "dict" /\ "list" \in DOMAIN data.v /\ data.v.list.t = "list"
         THEN data.v.list.v ELSE <<>>

\* The date an entry is stamped with: the ten characters before the time
SampleDate(item) == SubSeq(item.v.dt_txt.v, 1, 10)

\* The positions in the payload of the entries stamped with a date
SamplesOn(date) == {j \in 1..Len(Items) : SampleDate(Items[j]) = date}

SampleDescription(j) == Items[j].v.weather.v[1].v.description.v
SampleIcon(j) == Items[j].v.weather.v[1].v.icon.v
SampleTemp(j) == Items[j].v.main.v.temp.v

\* yyyy-mm-dd as the number yyyymmdd
DateNumber(d) ==
    LET dg(k) == d[k] - 48
    IN  (((dg(1) * 10 + dg(2)) * 10 + dg(3)) * 10 + dg(4)) * 10000
        + (dg(6) * 10 + dg(7)) * 100 + dg(9) * 10 + dg(10)

\* s with its first letter in upper case and the others in lower case
IsCapitalized(s, raw) ==
    /\ Len(s) = Len(raw)
    /\ \A k \in 1..Len(raw) : s[k] = IF k = 1 THEN Upper(raw[k]) ELSE Lower(raw[k])

\* Entry j carries the most frequent value of its day, and of the values
\* that frequent the one met first
IsFirstMode(val(_), j) ==
    LET day == SamplesOn(SampleDate(Items[j]))
        count(i) == Cardinality({k \in day : val(k) = val(i)})
    IN  /\ \A i \in day : count(i) <= count(j)
        /\ \A i \in day : count(i) = count(j) => \E k \in day : k <= i /\ val(k) = val(j)

\* C1 as stated: no outcome of a request ends the process; only the user's
\* exit and a missing API key do.
C1_OnlyExitOrMissingKeyEnds ==
    /\ pc # "crashed"
    /\ pc = "exit1" => ~Truthy(api_key)

\* C2 as stated: once the current-weather request has finished, the
\* forecast request of the cycle is issued, whatever the first one came to.
C2_ForecastAlwaysRequested ==
    requests = <<"weather">> => pc = "await_current"

\* C3 as stated: every DailyForecast has min_temp <= avg_temp <= max_temp,
\* its minimum and maximum being those of the day's samples.
C3_MeanWithinExtremes ==
    \A i \in 1..Len(Days) :
        /\ FLe(Days[i].min_temp, Days[i].avg_temp)
        /\ FLe(Days[i].avg_temp, Days[i].max_temp)
        /\ \A j \in SamplesOn(Days[i].date) :
              FLe(Days[i].min_temp, SampleTemp(j)) /\ FLe(SampleTemp(j), Days[i].max_temp)

\* C4: the forecast has exactly one day per distinct date of the payload,
\* and its dates strictly increase, whatever the order of the samples.
C4_OneDayPerDateAscending ==
    forecast_data # None =>
        /\ {Days[i].date : i \in 1..Len(Days)}
             = {SampleDate(Items[j]) : j \in 1..Len(Items)}
        /\ \A i \in 1..(Len(Days) - 1) :
              DateNumber(Days[i].date) < DateNumber(Days[i + 1].date)

\* A forecast of two days was built from a payload that names the later day
\* first.
C4_Witness ==
    /\ pc = "prompt"
    /\ Len(Days) = 2
    /\ Len(Items) >= 3
    /\ DateNumber(SampleDate(Items[1])) > DateNumber(SampleDate(Items[Len(Items)]))

\* C5: a day's description is the capitalized most frequent description of
\* its samples and its icon their most frequent icon, the value met first
\* winning a tie.
C5_ModeFirstSeen ==
    \A i \in 1..Len(Days) :
        /\ \E j \in SamplesOn(Days[i].date) :
              /\ IsFirstMode(SampleDescription, j)
              /\ IsCapitalized(Days[i].description, SampleDescription(j))
        /\ \E j \in SamplesOn(Days[i].date) :
              /\ IsFirstMode(SampleIcon, j)
              /\ Days[i].icon.v = SampleIcon(j)

\* A day was aggregated whose first and last samples differ in description
\* and in icon, each value of the two being as frequent as any.
C5_Witness ==
    /\ pc = "prompt"
    /\ \E i \in 1..Len(Days) :
        LET day == SamplesOn(Days[i].date)
            first == CHOOSE j \in day : \A k \in day : j <= k
            last == CHOOSE j \in day : \A k \in day : k <= j
            n(val(_), j) == Cardinality({k \in day : val(k) = val(j)})
        IN  /\ SampleDescription(first) # SampleDescription(last)
            /\ SampleIcon(first) # SampleIcon(last)
            /\ \A k \in day : n(SampleDescription, k) <= n(SampleDescription, last)
            /\ \A k \in day : n(SampleDescription, k) <= n(SampleDescription, first)
            /\ \A k \in day : n(SampleIcon, k) <= n(SampleIcon, last)
            /\ \A k \in day : n(SampleIcon, k) <= n(SampleIcon, first)

\* C10 as stated: some sample of the day has both the day's description and
\* the day's icon.
C10_DescriptionAndIconShareASample ==
    \A i \in 1..Len(Days) :
        \E j \in SamplesOn(Days[i].date) :
            /\ IsCapitalized(Days[i].description, SampleDescription(j))
            /\ Days[i].icon.v = SampleIcon(j)

\* The value display_forecast scales for day i, before it is cut to an
\* integer: (avg_temp - min_temp_all) / temp_range * (chart_height - 1)
Scaled(i) ==
    FMulInt(FDiv(FSub(Days[i].avg_temp, chart.min_temp_all), chart.temp_range),
            chart_height - 1)

\* The printed line (1 is the top one) that holds the marker of day i
PrintedRow(i) ==
    CHOOSE k \in 1..chart_height : chart.marks[i].column_pos \in chart.chart_lines[k]

\* All days of the forecast have one temperature for minimum and maximum
AllDaysEqual == \A i, j \in 1..Len(Days) : Days[i].min_temp = Days[j].max_temp

\* C6 as stated: the scaled row is the scaled value rounded, kept within
\* 0..chart_height - 1; minimum 10, maximum 30, average 20 give row 4.
C6_RowIsRounded ==
    chart # None =>
        \A i \in 1..Len(Days) :
            /\ chart.marks[i].scaled_temp = Clamp(FRoundInt(Scaled(i)), chart_height - 1)
            /\ ( /\ chart.min_temp_all = FFromInt(10)
                 /\ chart.max_temp_all = FFromInt(30)
                 /\ Days[i].avg_temp = FFromInt(20) ) => chart.marks[i].scaled_temp = 4

\* C6, amended: the scaled row is the scaled value with its fraction dropped
\* (the largest integer not above it), kept within 0..chart_height - 1;
\* minimum 10, maximum 30, average 20 give row 3.
C6_RowIsTruncated ==
    chart # None =>
        \A i \in 1..Len(Days) :
            \E x \in {Scaled(i)}, row \in {chart.marks[i].scaled_temp} :
                /\ row \in 0..(chart_height - 1)
                /\ FLt(x, FZero) => row = 0
                /\ FLe(FFromInt(chart_height - 1), x) => row = chart_height - 1
                /\ ( FLe(FZero, x) /\ FLt(x, FFromInt(chart_height - 1)) )
                      => FLe(FFromInt(row), x) /\ FLt(x, FFromInt(row + 1))
                /\ ( /\ chart.min_temp_all = FFromInt(10)
                     /\ chart.max_temp_all = FFromInt(30)
                     /\ Days[i].avg_temp = FFromInt(20) ) => row = 3

\* A chart was drawn with minimum 10 and maximum 30, and a day of average 20
\* is on row 3.
C6_Witness ==
    /\ chart # None
    /\ chart.min_temp_all = FFromInt(10)
    /\ chart.max_temp_all = FFromInt(30)
    /\ \E i \in 1..Len(Days) :
          Days[i].avg_temp = FFromInt(20) /\ chart.marks[i].scaled_temp = 3

\* C7 as stated: the column of day i of n is i / (n - 1) * (chart_width - 1)
\* rounded, within 0..chart_width - 1, and 0 when n = 1.
C7_ColumnIsRounded ==
    chart # None =>
        \A i \in 1..Len(Days) :
            chart.marks[i].column_pos = ColumnPosRounded(i - 1, Len(Days))

\* C7, amended: the column of day i of n is i / (n - 1) * (chart_width - 1)
\* with its fraction dropped, that is the integer quotient of
\* i * (chart_width - 1) by n - 1, and 0 when n = 1.
C7_ColumnIsTruncated ==
    chart # None =>
        \A i \in 1..Len(Days) :
            /\ chart.marks[i].column_pos \in 0..(chart_width - 1)
            /\ chart.marks[i].column_pos =
                  IF Len(Days) = 1 THEN 0
                  ELSE ((i - 1) * (chart_width - 1)) \div (Len(Days) - 1)

\* A chart of four days was drawn, the third day in column 32 (two thirds of
\* 49 is 32.67).
C7_Witness ==
    /\ chart # None
    /\ Len(Days) = 4
    /\ chart.marks[3].column_pos = 32

\* C8: when the least minimum of the days equals their greatest maximum, the
\* range is taken as 1, the display raises nothing, and every marker is on
\* the last printed line.
C8_FlatForecastOnBottomRow ==
    (forecast_data # None /\ Len(Days) > 0 /\ AllDaysEqual) =>
        /\ pc = "prompt"
        /\ chart # None
        /\ chart.temp_range = FFromInt(1)
        /\ \A i \in 1..Len(Days) :
              chart.marks[i].column_pos \in chart.chart_lines[chart_height]
        /\ \A k \in 1..(chart_height - 1) : chart.chart_lines[k] = {}

\* A forecast of several days of one temperature was drawn.
C8_Witness ==
    /\ chart # None
    /\ Len(Days) >= 2
    /\ AllDaysEqual
    /\ Cardinality(chart.chart_lines[chart_height]) = Len(Days)

\* C9: the marker of a day is on printed line chart_height - 1 - scaled_temp
\* (counted from 0), so scaled row 0 is the last line; of two days the one
\* with the higher average is never on a lower line; and the markers, one
\* per day, are all within the chart_height lines of chart_width columns.
C9_RowsInvertedAndInsideGrid ==
    chart # None =>
        /\ Len(chart.chart_lines) = chart_height
        /\ \A k \in 1..chart_height : chart.chart_lines[k] \subseteq 0..(chart_width - 1)
        /\ \A i \in 1..Len(Days) :
              /\ chart.marks[i].column_pos
                    \in chart.chart_lines[chart_height - 1 - chart.marks[i].scaled_temp + 1]
              /\ chart.marks[i].scaled_temp = 0 => PrintedRow(i) = chart_height
        /\ \A i, j \in 1..Len(Days) :
              FLt(Days[j].avg_temp, Days[i].avg_temp) => PrintedRow(i) <= PrintedRow(j)
        /\ Cardinality(UNION {{<<k, c>> : c \in chart.chart_lines[k]} : k \in 1..chart_height})
              = Len(Days)

\* A chart was drawn with a warmer day printed above a colder one.
C9_Witness ==
    /\ chart # None
    /\ \E i, j \in 1..Len(Days) :
          /\ FLt(Days[j].avg_temp, Days[i].avg_temp)
          /\ PrintedRow(i) < PrintedRow(j)
          /\ PrintedRow(j) = chart_height

====
